---- MODULE Spec2Model ----
(***************************************************************************)
(* go-ast-parser: the load / extract pipeline (pkg/loader, pkg/parser),    *)
(* the symbol resolver (pkg/analyzer) and the qualifier rewriter           *)
(* (pkg/transform), modelled as state machines over Go strings.            *)
(*                                                                         *)
(* Texts, paths, names and identifiers are TLA+ strings; Go's byte offsets *)
(* are 0-based, TLA+ positions 1-based.                                    *)
(***************************************************************************)
EXTENDS Integers, Sequences, FiniteSets, TLC

VARIABLES
    \* ---- qualifier rewriter (ApplyQualifierReplacements) ----
    rpc,                    \* position inside ApplyQualifierReplacements
    text0,                  \* the chunkCode argument as passed in
    node,                   \* the node argument (NoNode = nil)
    info,                   \* the info argument (FALSE = nil)
    chunkCode,              \* the local chunkCode, rewritten in place
    replacements,           \* map alias -> full import path
    tempMap,                \* map alias -> placeholder
    finalMap,               \* map placeholder -> full import path
    sortedOldQualifiers,    \* aliases, longest first
    sortedPlaceholders,     \* placeholders, longest first
    ridx,                   \* index of the next element of the running loop
    written,                \* history: the full paths the second loop wrote so far
    \* ---- the pipeline: LoadGoProject, then ParsePackages ----
    pc,                     \* position in the pipeline
    projectPath,            \* the -path argument
    vendorStat,             \* what os.Stat(vendorDirPath) reported (logged only)
    mainPkgs, mainErr,      \* result of packages.Load on the project root
    vendorPkgs, vendorErr,  \* result of packages.Load on the vendor directory
    allPkgs,                \* LoadGoProject: the merged list
    loadedPkgIDs,           \* LoadGoProject: the set of IDs already taken
    loadResult,             \* what LoadGoProject returned
    absVendor,              \* ParsePackages: absVendorPath, err of filepath.Abs
    allChunks,              \* ParsePackages: allChunks
    pkgIdx,                 \* ParsePackages: index of the unit of the loop
    pkgChunks,              \* processPackage: chunks
    fileIdx,                \* processPackage: index of the file of the loop
    fileBytes,              \* processPackage: originalFileContentString
    fileChunks,             \* processFileDeclarations: chunks
    declIdx,                \* processFileDeclarations: index of the declaration of the loop
    lastDecl,               \* what the last iteration over a declaration did
    result,                 \* what ParsePackages returned
    panicked,               \* a slice expression went out of range
    \* ---- the symbol extractor (ExtractAccessedSymbols) alone ----
    apc,                    \* position inside ExtractAccessedSymbols
    anode,                  \* the node argument (NoNode = nil)
    ainfo,                  \* the info argument (FALSE = nil)
    accessed,               \* the keys of the map accessed
    aresult                 \* the slice result

rvars == <<rpc, text0, node, info, chunkCode, replacements, tempMap, finalMap,
           sortedOldQualifiers, sortedPlaceholders, ridx, written>>

pvars == <<pc, projectPath, vendorStat, mainPkgs, mainErr, vendorPkgs, vendorErr, allPkgs,
           loadedPkgIDs, loadResult, absVendor, allChunks, pkgIdx, pkgChunks, fileIdx,
           fileBytes, fileChunks, declIdx, lastDecl, result, panicked>>

avars == <<apc, anode, ainfo, accessed, aresult>>

vars == <<rvars, pvars, avars>>

-----------------------------------------------------------------------------
(* Bounds *)

\* longest subtree (number of member selections) handed to the rewriter
MaxSels == 2

\* longest list of units one packages.Load call returns
MaxUnits == 2

-----------------------------------------------------------------------------
(* Go strings *)

\* strings.HasPrefix
HasPrefix(s, p) == Len(p) <= Len(s) /\ SubSeq(s, 1, Len(p)) = p

\* strings.HasSuffix
HasSuffix(s, p) == Len(p) <= Len(s) /\ SubSeq(s, Len(s) - Len(p) + 1, Len(s)) = p

\* strings.Contains
Contains(s, sub) == \E i \in 1..(Len(s) - Len(sub) + 1) : SubSeq(s, i, i + Len(sub) - 1) = sub

\* strings.ReplaceAll for a non-empty old: leftmost non-overlapping occurrences
RECURSIVE ReplaceAll(_, _, _)
ReplaceAll(s, old, new) ==
    IF Len(s) < Len(old) THEN s
    ELSE IF HasPrefix(s, old)
         THEN new \o ReplaceAll(SubSeq(s, Len(old) + 1, Len(s)), old, new)
         ELSE SubSeq(s, 1, 1) \o ReplaceAll(Tail(s), old, new)

\* strconv.Itoa
Itoa(i) == ToString(i)

\* sequences over S of length at most n
SeqsUpTo(S, n) == UNION {[1..k -> S] : k \in 0..n}

\* the empty Go map
EmptyMap == [k \in {} |-> ""]

\* m[k] = v on a Go map
MapSet(m, k, v) == [x \in (DOMAIN m) \cup {k} |-> IF x = k THEN v ELSE m[x]]

-----------------------------------------------------------------------------
(* Syntax trees and type information, as the rewriter and resolver see them *)

\* a nil ast.Node
NoNode == [isNil |-> TRUE, sels |-> <<>>]

\* info.Uses[ident] == nil
NoObj == [kind |-> "nil", path |-> ""]

\* a *types.PkgName whose Imported().Path() is path
PkgNameObj(path) == [kind |-> "PkgName", path |-> path]

\* any other types.Object (a variable of the package at path)
VarObj(path) == [kind |-> "Var", path |-> path]

\* an *ast.SelectorExpr X.Sel whose X is the identifier name, bound to obj
SelExpr(name, sel, obj) == [isIdent |-> TRUE, X |-> name, Sel |-> sel, obj |-> obj]

\* an *ast.SelectorExpr whose X is not an identifier (a call, an index, ...)
SelOnExpr(sel) == [isIdent |-> FALSE, X |-> "", Sel |-> sel, obj |-> NoObj]

\* a subtree, by the member selections ast.Inspect meets, in traversal order
Node(sels) == [isNil |-> FALSE, sels |-> sels]

-----------------------------------------------------------------------------
(* pkg/transform: ApplyQualifierReplacements *)

placeholderPrefix == "__GO_QUALIFIER_TEMP_"

\* the placeholder of the k-th alias the numbering loop visits (i = k - 1):
\* placeholderPrefix + strconv.Itoa(i) + "__"
PlaceholderFor(ord, k) == placeholderPrefix \o Itoa(k - 1) \o "__"

\* the callback without the *types.PkgName test: every bound base identifier
\* is taken for a qualifier, with the path of the package of its object
RECURSIVE InspectAnyObject(_, _, _)
InspectAnyObject(sels, i, acc) ==
    IF i > Len(sels) THEN acc
    ELSE LET s == sels[i] IN
         IF s.isIdent /\ s.obj.kind # "nil" /\ s.X # s.obj.path
         THEN InspectAnyObject(sels, i + 1, MapSet(acc, s.X, s.obj.path))
         ELSE InspectAnyObject(sels, i + 1, acc)

\* the ast.Inspect callback applied to the selections sels[i..], collecting acc
RECURSIVE InspectReplacements(_, _, _)
InspectReplacements(sels, i, acc) ==
    IF i > Len(sels) THEN acc
    ELSE LET s == sels[i] IN
         IF s.isIdent /\ s.obj.kind = "PkgName" /\ s.X # s.obj.path
         THEN InspectReplacements(sels, i + 1, MapSet(acc, s.X, s.obj.path))
         ELSE InspectReplacements(sels, i + 1, acc)

\* the replacements map of a non-nil node
DiscoverReplacements(n) == InspectReplacements(n.sels, 1, EmptyMap)

\* the orders in which `for k := range m` can visit the key set S
RangeOrders(S) ==
    {f \in [1..Cardinality(S) -> S] : \A i, j \in 1..Cardinality(S) : i # j => f[i] # f[j]}

\* sort.Slice(keys, len(keys[i]) > len(keys[j])): not stable, so any order
\* of the keys that is non-increasing in length
SortedLongestFirst(S) ==
    {f \in RangeOrders(S) : \A i, j \in 1..Cardinality(S) : i < j => Len(f[i]) >= Len(f[j])}

\* tempMap after the numbering loop visited the aliases in the order ord
TempMapOf(ord) == [q \in {ord[i] : i \in 1..Len(ord)} |->
                     PlaceholderFor(ord, CHOOSE i \in 1..Len(ord) : ord[i] = q)]

\* finalMap after the numbering loop visited the aliases in the order ord
FinalMapOf(repl, ord) == [p \in {PlaceholderFor(ord, i) : i \in 1..Len(ord)} |->
                            repl[ord[CHOOSE i \in 1..Len(ord) : PlaceholderFor(ord, i) = p]]]

\* one replacement loop: for _, k := range keys { text = ReplaceAll(text, k+".", m[k]+".") }
RECURSIVE ReplaceLoop(_, _, _, _)
ReplaceLoop(text, keys, m, i) ==
    IF i > Len(keys) THEN text
    ELSE ReplaceLoop(ReplaceAll(text, keys[i] \o ".", m[keys[i]] \o "."), keys, m, i + 1)

\* every value ApplyQualifierReplacements(text, n, hasInfo) can return, over
\* the map iteration orders and the unstable sorts
ApplyQualifierReplacements(text, n, hasInfo) ==
    IF n.isNil \/ ~hasInfo THEN {text}
    ELSE LET repl == DiscoverReplacements(n) IN
         IF DOMAIN repl = {} THEN {text}
         ELSE UNION { { ReplaceLoop(ReplaceLoop(text, o1, TempMapOf(ord), 1), o2, FinalMapOf(repl, ord), 1) :
                          o1 \in SortedLongestFirst(DOMAIN repl),
                          o2 \in SortedLongestFirst(DOMAIN FinalMapOf(repl, ord)) } :
                        ord \in RangeOrders(DOMAIN repl) }

-----------------------------------------------------------------------------
(* pkg/analyzer *)

\* the bytes of import paths and identifiers, in ascending byte order
ByteOrder == "./0123456789ABCDEFGHIJKLMNOPQRSTUVWXYZ_abcdefghijklmnopqrstuvwxyz"

ByteRank(c) == CHOOSE r \in 1..Len(ByteOrder) : SubSeq(ByteOrder, r, r) = c

\* a < b on Go strings (bytewise lexical order), as sort.Strings compares
RECURSIVE StrLess(_, _)
StrLess(a, b) ==
    IF Len(b) = 0 THEN FALSE
    ELSE IF Len(a) = 0 THEN TRUE
    ELSE IF SubSeq(a, 1, 1) = SubSeq(b, 1, 1) THEN StrLess(Tail(a), Tail(b))
    ELSE ByteRank(SubSeq(a, 1, 1)) < ByteRank(SubSeq(b, 1, 1))

\* a sort with the comparison the wrong way round
SortStringsDescending(S) ==
    CHOOSE f \in RangeOrders(S) : \A x, y \in 1..Cardinality(S) : x < y => StrLess(f[y], f[x])

\* the keys of the accessed map, through sort.Strings
SortStrings(S) ==
    CHOOSE f \in RangeOrders(S) : \A x, y \in 1..Cardinality(S) : x < y => StrLess(f[x], f[y])

\* the accessed map ast.Inspect fills: fullImportPath + "." + selExpr.Sel.Name
AccessedSet(sels) ==
    { sels[x].obj.path \o "." \o sels[x].Sel :
        x \in {y \in 1..Len(sels) : sels[y].isIdent /\ sels[y].obj.kind = "PkgName"} }

ExtractAccessedSymbols(n, hasInfo) ==
    IF n.isNil \/ ~hasInfo THEN <<>> ELSE SortStrings(AccessedSet(n.sels))

\* a join that puts the names in ascending order first
RECURSIVE JoinSorted(_, _)
JoinSorted(names, sep) ==
    IF Len(names) = 0 THEN ""
    ELSE IF Len(names) = 1 THEN names[1]
    ELSE LET m == CHOOSE x \in 1..Len(names) :
                      \A y \in 1..Len(names) : ~StrLess(names[y], names[x])
             rest == SubSeq(names, 1, m - 1) \o SubSeq(names, m + 1, Len(names))
         IN names[m] \o sep \o JoinSorted(rest, sep)

\* strings.Join(names, sep)
RECURSIVE Join(_, _)
Join(names, sep) ==
    IF Len(names) = 0 THEN ""
    ELSE IF Len(names) = 1 THEN names[1]
    ELSE names[1] \o sep \o Join(Tail(names), sep)

\* expressions: tv is info.TypeOf(expr).String(), "" when TypeOf gives nil;
\* name is the identifier, the selected member, or the text go/printer gives
\* for an expression of any other kind; obj is info.Uses[ident]; x holds the
\* operand expressions; dir is the direction of a channel type; params and
\* results are the field lists of a function type
Expr(k, name, tv, x) ==
    [k |-> k, name |-> name, tv |-> tv, x |-> x, obj |-> NoObj, dir |-> "",
     params |-> <<>>, results |-> <<>>]

\* the nil expression
NoExpr == Expr("nil", "", "", <<>>)
Ident(name, tv) == Expr("Ident", name, tv, <<>>)
\* an identifier the use-table binds to an object
IdentUse(name, tv, obj) == [Ident(name, tv) EXCEPT !.obj = obj]
StarExpr(x, tv) == Expr("StarExpr", "", tv, <<x>>)
ArrayType(x, tv) == Expr("ArrayType", "", tv, <<x>>)
MapType(key, value, tv) == Expr("MapType", "", tv, <<key, value>>)
SelectorExpr(x, sel, tv) == Expr("SelectorExpr", sel, tv, <<x>>)
InterfaceType(src, tv) == Expr("InterfaceType", src, tv, <<>>)
\* dir is "SEND", "RECV" or "BOTH"
ChanType(dir, value, tv) == [Expr("ChanType", "", tv, <<value>>) EXCEPT !.dir = dir]
Ellipsis(x, tv) == Expr("Ellipsis", "", tv, <<x>>)
\* an *ast.Field: nilNames tells a nil Names slice from an empty one
Field(names, type) == [Names |-> names, nilNames |-> names = <<>>, Type |-> type]
FuncType(params, results, tv) ==
    [Expr("FuncType", "", tv, <<>>) EXCEPT !.params = params, !.results = results]
BasicLit(src, tv) == Expr("BasicLit", src, tv, <<>>)
CallExpr(src, tv) == Expr("CallExpr", src, tv, <<>>)

\* name + " " + typeStr for every name of a field
NamedStrings(names, typeStr) == [i \in 1..Len(names) |-> names[i] \o " " \o typeStr]

RECURSIVE GetTypeString(_), GetSignature(_), FieldStrings(_)

\* the loop of GetSignature over a field list: one string per name, or the
\* type alone for a field without names
FieldStrings(list) ==
    IF Len(list) = 0 THEN <<>>
    ELSE LET typeStr == GetTypeString(list[1].Type)
         IN (IF Len(list[1].Names) = 0 THEN <<typeStr>>
             ELSE NamedStrings(list[1].Names, typeStr))
            \o FieldStrings(Tail(list))

GetSignature(ft) ==
    LET params == FieldStrings(ft.params)
        paramStr == "(" \o Join(params, ", ") \o ")"
        results == FieldStrings(ft.results)
        resultStr == IF Len(results) > 0
                     THEN IF Len(results) = 1 /\ ft.results[1].nilNames
                          THEN " " \o results[1]
                          ELSE " (" \o Join(results, ", ") \o ")"
                     ELSE ""
    IN paramStr \o resultStr

\* the default branch prints the expression with go/printer, which fails on
\* a nil expression only; %T of nil is "<nil>"
GetTypeString(expr) ==
    IF expr.tv # "" THEN expr.tv
    ELSE CASE expr.k = "Ident" -> expr.name
           [] expr.k = "StarExpr" -> "*" \o GetTypeString(expr.x[1])
           [] expr.k = "ArrayType" -> "[]" \o GetTypeString(expr.x[1])
           [] expr.k = "MapType" ->
                "map[" \o GetTypeString(expr.x[1]) \o "]" \o GetTypeString(expr.x[2])
           [] expr.k = "SelectorExpr" ->
                IF expr.x[1].k = "Ident" /\ expr.x[1].obj.kind = "PkgName"
                THEN expr.x[1].obj.path \o "." \o expr.name
                ELSE GetTypeString(expr.x[1]) \o "." \o expr.name
           [] expr.k = "InterfaceType" -> "interface{}"
           [] expr.k = "ChanType" ->
                (CASE expr.dir = "SEND" -> "chan<- "
                   [] expr.dir = "RECV" -> "<-chan "
                   [] OTHER -> "chan ")
                \o GetTypeString(expr.x[1])
           [] expr.k = "Ellipsis" -> "..." \o GetTypeString(expr.x[1])
           [] expr.k = "FuncType" -> "func" \o GetSignature(expr)
           [] expr.k = "nil" -> "<nil>"
           [] OTHER -> expr.name

-----------------------------------------------------------------------------
(* The corpus: files, declarations and compilation units *)

ImportSpec(pos, end) ==
    [kind |-> "ImportSpec", Names |-> <<>>, Shape |-> "", Type |-> NoExpr, Values |-> <<>>,
     Pos |-> pos, End |-> end, sels |-> <<>>]

\* shape: "StructType", "InterfaceType", or another type expression
TypeSpec(name, shape, pos, end, sels) ==
    [kind |-> "TypeSpec", Names |-> <<name>>, Shape |-> shape, Type |-> NoExpr, Values |-> <<>>,
     Pos |-> pos, End |-> end, sels |-> sels]

ValueSpec(names, type, values, pos, end, sels) ==
    [kind |-> "ValueSpec", Names |-> names, Shape |-> "", Type |-> type, Values |-> values,
     Pos |-> pos, End |-> end, sels |-> sels]

\* the member selections of a sequence of specs, in source order
RECURSIVE SpecSels(_)
SpecSels(specs) == IF Len(specs) = 0 THEN <<>> ELSE specs[1].sels \o SpecSels(Tail(specs))

FuncDecl(name, recv, pos, end, sels) ==
    [kind |-> "FuncDecl", Tok |-> "func", Name |-> name, Recv |-> recv, Specs |-> <<>>,
     Pos |-> pos, End |-> end, sels |-> sels]

GenDecl(tok, pos, end, specs) ==
    [kind |-> "GenDecl", Tok |-> tok, Name |-> "", Recv |-> <<>>, Specs |-> specs,
     Pos |-> pos, End |-> end, sels |-> SpecSels(specs)]

\* /p/a.go as loaded: offsets are those of the position index
SrcA == "package p\nimport ab \"pkg/ab\"\nimport b \"pkg/b\"\nfunc F() {\n\tab.Foo(b.Baz)\n}\nfunc (t *T) M() {}\ntype (\n\tT struct{}\n\tI interface{}\n)\nvar x, y int\n"

DeclsA ==
    << GenDecl("import", 10, 28, <<ImportSpec(17, 28)>>),
       GenDecl("import", 29, 45, <<ImportSpec(36, 45)>>),
       FuncDecl("F", <<>>, 46, 73,
                <<SelExpr("ab", "Foo", PkgNameObj("pkg/ab")), SelExpr("b", "Baz", PkgNameObj("pkg/b"))>>),
       FuncDecl("M", <<StarExpr(Ident("T", "p.T"), "*p.T")>>, 74, 92, <<>>),
       GenDecl("type", 93, 128,
               <<TypeSpec("T", "StructType", 101, 111, <<>>),
                 TypeSpec("I", "InterfaceType", 113, 126, <<>>)>>),
       GenDecl("var", 129, 141,
               <<ValueSpec(<<"x", "y">>, Ident("int", "int"), <<>>, 133, 141, <<>>)>>) >>

\* /p/b.go; g is not declared anywhere, so the call g() has no recorded type;
\* N is declared by the name of the struct type T of /p/a.go
SrcB == "package p\nfunc H() {}\nvar z, w = g(), 1\ntype N T\n"

DeclsB ==
    << FuncDecl("H", <<>>, 10, 21, <<>>),
       GenDecl("var", 22, 39,
               <<ValueSpec(<<"z", "w">>, NoExpr, <<CallExpr("g()", ""), BasicLit("1", "int")>>,
                           26, 39, <<>>)>>),
       GenDecl("type", 40, 48, <<TypeSpec("N", "Ident", 45, 48, <<>>)>>) >>

\* /p/vendor/q/q.go
SrcQ == "package q\nimport \"fmt\"\nconst (\n\tA int = 1\n\tB\n\tC = 2\n)\nfunc G() { fmt.Println(C) }\n"

DeclsQ ==
    << GenDecl("import", 10, 22, <<ImportSpec(17, 22)>>),
       GenDecl("const", 23, 53,
               <<ValueSpec(<<"A">>, Ident("int", "int"), <<BasicLit("1", "int")>>, 32, 41, <<>>),
                 ValueSpec(<<"B">>, NoExpr, <<>>, 43, 44, <<>>),
                 ValueSpec(<<"C">>, NoExpr, <<BasicLit("2", "untyped int")>>, 46, 51, <<>>)>>),
       FuncDecl("G", <<>>, 54, 81, <<SelExpr("fmt", "Println", PkgNameObj("fmt"))>>) >>

\* a parsed file: its name in the position index, the content the offsets
\* were computed from, its declarations, and the length the file may have
\* shrunk to on disk since it was loaded
File(path) ==
    CASE path = "/p/a.go" -> [Name |-> path, src |-> SrcA, Decls |-> DeclsA, shrunk |-> 111]
      [] path = "/p/b.go" -> [Name |-> path, src |-> SrcB, Decls |-> DeclsB, shrunk |-> 10]
      [] path = "/p/vendor/q/q.go" -> [Name |-> path, src |-> SrcQ, Decls |-> DeclsQ, shrunk |-> 41]
      [] OTHER -> [Name |-> path, src |-> "package r\n", Decls |-> <<>>, shrunk |-> 0]

\* pkg.Fset.Position(pos): byte offset and 1-based line in the loaded content
Position(f, pos) ==
    [Offset |-> pos,
     Line |-> 1 + Cardinality({x \in 1..pos : SubSeq(f.src, x, x) = "\n"})]

\* a *packages.Package; pass tells the instances of the two Load calls apart;
\* nilSyntax tells a nil Syntax slice from an empty one
Pkg(id, pass, typesInfo, syntax) ==
    [ID |-> id, pass |-> pass, Name |-> id, TypesInfo |-> typesInfo, Syntax |-> syntax,
     nilSyntax |-> FALSE, Fset |-> TRUE]

\* what packages.Load can list for the main module
MainUnits ==
    { Pkg("p", "A", TRUE, <<"/p/a.go", "/p/b.go">>),
      Pkg("q", "A", TRUE, <<"/p/vendor/q/q.go">>),
      Pkg("r", "A", FALSE, <<"/p/r/r.go">>) }

\* what packages.Load can list for the vendor directory
VendorUnits ==
    { Pkg("q", "B", TRUE, <<"/p/vendor/q/q.go">>),
      [Pkg("r", "B", TRUE, <<>>) EXCEPT !.nilSyntax = TRUE],
      [Pkg("s", "B", TRUE, <<"/p/vendor/s/s.go">>) EXCEPT !.Fset = FALSE],
      Pkg("t", "B", TRUE, <<>>) }

\* the lists a Load call can return: no unit twice
LoadResults(units) ==
    {ps \in SeqsUpTo(units, MaxUnits) : \A x, y \in 1..Len(ps) : x # y => ps[x] # ps[y]}

\* ioutil.ReadFile(path) now: an error, the content as loaded, or a shorter file
ReadFile(path) ==
    { [err |-> TRUE, bytes |-> ""],
      [err |-> FALSE, bytes |-> File(path).src],
      [err |-> FALSE, bytes |-> SubSeq(File(path).src, 1, File(path).shrunk)] }

-----------------------------------------------------------------------------
(* pkg/parser: the per-declaration functions *)

\* fmt.Sprintf("%s:%d-%d-%s", filePath, startLine, endLine, name)
SprintfID(filePath, startLine, endLine, name) ==
    filePath \o ":" \o Itoa(startLine) \o "-" \o Itoa(endLine) \o "-" \o name

\* the offset test without its upper bound
InvalidOffsetsNoUpperBound(startOffset, endOffset, n) ==
    startOffset < 0 \/ startOffset > endOffset

\* startOffset < 0 || endOffset > len(content) || startOffset > endOffset
InvalidOffsets(startOffset, endOffset, n) ==
    startOffset < 0 \/ endOffset > n \/ startOffset > endOffset

\* s[a:b] is defined (does not panic)
SliceInRange(s, a, b) == 0 <= a /\ a <= b /\ b <= Len(s)

\* s[a:b]
GoSlice(s, a, b) == SubSeq(s, a + 1, b)

\* types.ChromaDocument
ChromaDocument(id, document, metadata) ==
    [ID |-> id, Document |-> document, Metadata |-> metadata]

\* what became of one declaration or binding: the chunks it gave, the file
\* read and the offsets its text was checked against and sliced from, the
\* text before the rewrite, and whether the slice expression panicked
Outcome(chunks, read, code, startOffset, endOffset, panic) ==
    [chunks |-> chunks, read |-> read, code |-> code,
     Start |-> startOffset, End |-> endOffset, panic |-> panic]

\* the metadata of processFileDeclarations before dispatch
BaseMetadata(filePath, packageName, isVendored, accessedSymbols) ==
    [file_path |-> filePath, package_name |-> packageName, is_vendored |-> isVendored,
     accessed_symbols |-> accessedSymbols]

\* a processFunctionDeclaration that never looks at the receiver list
processFunctionDeclarationNoRecv(funcDecl, pkg, declChunkCode, metadata, filePath, startPos, endPos) ==
    LET plain == MapSet(MapSet(metadata, "entity_type", "function"), "entity_name", funcDecl.Name)
    IN { ChromaDocument(SprintfID(filePath, startPos.Line, endPos.Line, funcDecl.Name), doc, plain) :
           doc \in ApplyQualifierReplacements(declChunkCode, Node(funcDecl.sels), pkg.TypesInfo) }

\* the chunk of a function or method declaration, over the rewriter's outcomes
processFunctionDeclaration(funcDecl, pkg, declChunkCode, metadata, filePath, startPos, endPos) ==
    LET plain == MapSet(MapSet(metadata, "entity_type", "function"), "entity_name", funcDecl.Name)
        receiverType == GetTypeString(funcDecl.Recv[1])
        md == IF Len(funcDecl.Recv) > 0
              THEN MapSet(MapSet(MapSet(plain, "entity_type", "method"),
                                 "receiver_type", receiverType),
                          "entity_name", receiverType \o "." \o funcDecl.Name)
              ELSE plain
    IN { ChromaDocument(SprintfID(filePath, startPos.Line, endPos.Line, funcDecl.Name), doc, md) :
           doc \in ApplyQualifierReplacements(declChunkCode, Node(funcDecl.sels), pkg.TypesInfo) }

\* the second half of processTypeSpecification and processValueSpecification:
\* read the file again, check the binding's offsets, slice, rewrite, build
SpecChunk(spec, pkg, specMetadata, entityName, filePath, specStartPos, specEndPos) ==
    UNION { IF read.err
               \/ InvalidOffsets(specStartPos.Offset, specEndPos.Offset, Len(read.bytes))
            THEN { Outcome(<<>>, read, "", specStartPos.Offset, specEndPos.Offset, FALSE) }
            ELSE IF ~SliceInRange(read.bytes, specStartPos.Offset, specEndPos.Offset)
            THEN { Outcome(<<>>, read, "", specStartPos.Offset, specEndPos.Offset, TRUE) }
            ELSE LET specChunkCode == GoSlice(read.bytes, specStartPos.Offset, specEndPos.Offset)
                 IN { Outcome(<<ChromaDocument(
                                   SprintfID(filePath, specStartPos.Line, specEndPos.Line, entityName),
                                   doc, specMetadata)>>,
                              read, specChunkCode, specStartPos.Offset, specEndPos.Offset, FALSE) :
                        doc \in ApplyQualifierReplacements(specChunkCode, Node(spec.sels), pkg.TypesInfo) }
          : read \in ReadFile(filePath) }

\* a processTypeSpecification without the final else
processTypeSpecificationNoDefault(typeSpec, pkg, specMetadata, filePath, specStartPos, specEndPos) ==
    LET entityName == typeSpec.Names[1]
        named == MapSet(specMetadata, "entity_name", entityName)
        md == IF typeSpec.Shape = "StructType" THEN MapSet(named, "type_category", "struct")
              ELSE IF typeSpec.Shape = "InterfaceType" THEN MapSet(named, "type_category", "interface")
              ELSE named
    IN SpecChunk(typeSpec, pkg, md, entityName, filePath, specStartPos, specEndPos)

processTypeSpecification(typeSpec, pkg, specMetadata, filePath, specStartPos, specEndPos) ==
    LET entityName == typeSpec.Names[1]
        category == IF typeSpec.Shape = "StructType" THEN "struct"
                    ELSE IF typeSpec.Shape = "InterfaceType" THEN "interface"
                    ELSE "alias_or_basic"
        md == MapSet(MapSet(specMetadata, "entity_name", entityName), "type_category", category)
    IN SpecChunk(typeSpec, pkg, md, entityName, filePath, specStartPos, specEndPos)

\* a processValueSpecification that writes the type of the first initializer
\* without asking whether TypeOf found one
processValueSpecificationNoNilCheck(valueSpec, pkg, specMetadata, filePath, specStartPos, specEndPos) ==
    LET entityName == Join(valueSpec.Names, ", ")
        named == MapSet(specMetadata, "entity_name", entityName)
        md == IF valueSpec.Type # NoExpr
              THEN MapSet(named, "type", GetTypeString(valueSpec.Type))
              ELSE IF Len(valueSpec.Values) > 0
              THEN MapSet(named, "type", valueSpec.Values[1].tv)
              ELSE named
    IN SpecChunk(valueSpec, pkg, md, entityName, filePath, specStartPos, specEndPos)

processValueSpecification(valueSpec, pkg, specMetadata, filePath, specStartPos, specEndPos) ==
    LET entityName == Join(valueSpec.Names, ", ")
        named == MapSet(specMetadata, "entity_name", entityName)
        md == IF valueSpec.Type # NoExpr
              THEN MapSet(named, "type", GetTypeString(valueSpec.Type))
              ELSE IF Len(valueSpec.Values) > 0 /\ valueSpec.Values[1].tv # ""
              THEN MapSet(named, "type", valueSpec.Values[1].tv)
              ELSE named
    IN SpecChunk(valueSpec, pkg, md, entityName, filePath, specStartPos, specEndPos)

\* the copy processSpecification makes of the base metadata
CopyMetadata(baseMetadata) == [k \in DOMAIN baseMetadata |-> baseMetadata[k]]

processSpecification(spec, genDecl, pkg, baseMetadata, filePath, specStartPos, specEndPos) ==
    LET specMetadata == CopyMetadata(baseMetadata) IN
    CASE spec.kind = "TypeSpec" ->
             processTypeSpecification(spec, pkg, specMetadata, filePath, specStartPos, specEndPos)
      [] spec.kind = "ValueSpec" ->
             processValueSpecification(spec, pkg, specMetadata, filePath, specStartPos, specEndPos)
      [] OTHER -> { Outcome(<<>>, [err |-> TRUE, bytes |-> ""], "",
                            specStartPos.Offset, specEndPos.Offset, FALSE) }

\* the loop leaving at the first binding that gives no chunk
RECURSIVE SpecLoopStopAtSkip(_, _, _, _, _, _)
SpecLoopStopAtSkip(genDecl, k, pkg, metadata, filePath, f) ==
    IF k > Len(genDecl.Specs) THEN { <<>> }
    ELSE UNION { IF Len(o.chunks) = 0 THEN { <<o>> }
                 ELSE { <<o>> \o rest :
                          rest \in SpecLoopStopAtSkip(genDecl, k + 1, pkg, metadata, filePath, f) }
               : o \in processSpecification(genDecl.Specs[k], genDecl, pkg, metadata, filePath,
                                            Position(f, genDecl.Specs[k].Pos),
                                            Position(f, genDecl.Specs[k].End)) }

\* the loop handing every binding the very map the binding before it wrote
\* to, as if processSpecification made no copy
RECURSIVE SpecLoopSharedMetadata(_, _, _, _, _, _)
SpecLoopSharedMetadata(genDecl, k, pkg, metadata, filePath, f) ==
    IF k > Len(genDecl.Specs) THEN { <<>> }
    ELSE UNION { { <<o>> \o rest :
                     rest \in SpecLoopSharedMetadata(genDecl, k + 1, pkg,
                                  IF Len(o.chunks) > 0 THEN o.chunks[1].Metadata ELSE metadata,
                                  filePath, f) }
               : o \in processSpecification(genDecl.Specs[k], genDecl, pkg, metadata, filePath,
                                            Position(f, genDecl.Specs[k].Pos),
                                            Position(f, genDecl.Specs[k].End)) }

\* the loop of processGeneralDeclaration over genDecl.Specs[k..]: every
\* sequence of outcomes, one per binding
RECURSIVE SpecLoop(_, _, _, _, _, _)
SpecLoop(genDecl, k, pkg, metadata, filePath, f) ==
    IF k > Len(genDecl.Specs) THEN { <<>> }
    ELSE { <<o>> \o rest :
             o \in processSpecification(genDecl.Specs[k], genDecl, pkg, metadata, filePath,
                                        Position(f, genDecl.Specs[k].Pos),
                                        Position(f, genDecl.Specs[k].End)),
             rest \in SpecLoop(genDecl, k + 1, pkg, metadata, filePath, f) }

processGeneralDeclaration(genDecl, pkg, declChunkCode, metadata, filePath, f) ==
    IF genDecl.Tok = "import" THEN { <<>> }
    ELSE SpecLoop(genDecl, 1, pkg, metadata, filePath, f)

\* processDeclaration: every sequence of outcomes the declaration can have;
\* read is the file read its own text was sliced from
processDeclaration(decl, pkg, declChunkCode, metadata, filePath, startPos, endPos, f, read) ==
    CASE decl.kind = "FuncDecl" ->
             { << Outcome(<<c>>, read, declChunkCode, startPos.Offset, endPos.Offset, FALSE) >> :
                 c \in processFunctionDeclaration(decl, pkg, declChunkCode, metadata, filePath,
                                                  startPos, endPos) }
      [] decl.kind = "GenDecl" ->
             processGeneralDeclaration(decl, pkg, declChunkCode, metadata, filePath, f)
      [] OTHER -> { <<>> }

\* the chunks of a sequence of outcomes, in order
RECURSIVE OutcomeChunks(_)
OutcomeChunks(os) == IF Len(os) = 0 THEN <<>> ELSE os[1].chunks \o OutcomeChunks(Tail(os))

-----------------------------------------------------------------------------
(* path/filepath *)

IsAbs(path) == HasPrefix(path, "/")

\* the elements of path between its separators, empty ones included
RECURSIVE SplitPath(_, _)
SplitPath(path, cur) ==
    IF Len(path) = 0 THEN <<cur>>
    ELSE IF SubSeq(path, 1, 1) = "/" THEN <<cur>> \o SplitPath(Tail(path), "")
    ELSE SplitPath(Tail(path), cur \o SubSeq(path, 1, 1))

\* the loop of filepath.Clean: drop empty and "." elements, let ".." take
\* back the element before it, keep a leading ".." of a relative path only
RECURSIVE CleanLoop(_, _, _, _)
CleanLoop(elems, k, rooted, out) ==
    IF k > Len(elems) THEN out
    ELSE IF elems[k] = "" \/ elems[k] = "." THEN CleanLoop(elems, k + 1, rooted, out)
    ELSE IF elems[k] = ".."
    THEN IF Len(out) > 0 /\ out[Len(out)] # ".."
         THEN CleanLoop(elems, k + 1, rooted, SubSeq(out, 1, Len(out) - 1))
         ELSE IF rooted THEN CleanLoop(elems, k + 1, rooted, out)
         ELSE CleanLoop(elems, k + 1, rooted, Append(out, ".."))
    ELSE CleanLoop(elems, k + 1, rooted, Append(out, elems[k]))

\* filepath.Clean(path)
Clean(path) ==
    IF path = "" THEN "."
    ELSE LET rooted == IsAbs(path)
             out == CleanLoop(SplitPath(path, ""), 1, rooted, <<>>)
         IN IF rooted THEN "/" \o Join(out, "/")
            ELSE IF Len(out) = 0 THEN "."
            ELSE Join(out, "/")

\* filepath.Join(dir, name): empty elements are ignored, the result is cleaned
JoinPath(dir, name) ==
    IF dir # "" THEN Clean(dir \o "/" \o name)
    ELSE IF name # "" THEN Clean(name)
    ELSE ""

\* os.Getwd(): the working directory of the process, here a directory that
\* is not the project's, or an error
Getwd ==
    { [dir |-> "/w", err |-> FALSE],
      [dir |-> "", err |-> TRUE] }

\* filepath.Abs(path): fails only when path is relative and os.Getwd fails
Abs(path, wd) ==
    IF IsAbs(path) THEN [path |-> Clean(path), err |-> FALSE]
    ELSE IF wd.err THEN [path |-> "", err |-> TRUE]
    ELSE [path |-> JoinPath(wd.dir, path), err |-> FALSE]

-----------------------------------------------------------------------------
(* pkg/loader *)

\* the merge that appends every unit, seen before or not
RECURSIVE MergeLoopNoDedup(_, _, _, _)
MergeLoopNoDedup(pkgs, k, all, ids) ==
    IF k > Len(pkgs) THEN <<all, ids>>
    ELSE MergeLoopNoDedup(pkgs, k + 1, Append(all, pkgs[k]), ids \cup {pkgs[k].ID})

\* for _, pkg := range pkgs { if !loadedPkgIDs[pkg.ID] { append; mark } },
\* from pkgs[k] on; gives the pair <<allPkgs, loadedPkgIDs>>
RECURSIVE MergeLoop(_, _, _, _)
MergeLoop(pkgs, k, all, ids) ==
    IF k > Len(pkgs) THEN <<all, ids>>
    ELSE IF pkgs[k].ID \notin ids
         THEN MergeLoop(pkgs, k + 1, Append(all, pkgs[k]), ids \cup {pkgs[k].ID})
         ELSE MergeLoop(pkgs, k + 1, all, ids)

\* a loader that gives up when the first Load call reports an error
LoadErrorFatal(errMain, errVendor) == IF errMain THEN "packages.Load failed" ELSE ""

\* the error LoadGoProject returns: `return allPkgs, nil` whatever the Load
\* calls reported
LoadError(errMain, errVendor) == ""

-----------------------------------------------------------------------------
(* pkg/parser: the loops of ParsePackages, processPackage and
   processFileDeclarations *)

\* a file read that fails and takes the chunks of the package with it
DropOnReadError(chunks) == <<>>

\* processPackage on a failed file read: log, continue; chunks stay
OnReadError(chunks) == chunks

\* the unit ParsePackages is at, the file processPackage is at, the
\* declaration processFileDeclarations is at
CurPkg == allPkgs[pkgIdx]
CurFile == File(CurPkg.Syntax[fileIdx])
CurDecl == CurFile.Decls[declIdx]

\* a test that asks for the type information only
UnusableTypesInfoOnly(pkg) == ~pkg.TypesInfo

\* pkg.TypesInfo == nil || pkg.Syntax == nil || pkg.Fset == nil
Unusable(pkg) == ~pkg.TypesInfo \/ pkg.nilSyntax \/ ~pkg.Fset

\* the rewriter at rest, while the pipeline runs
RwIdle ==
    /\ rpc = "idle" /\ text0 = "" /\ node = NoNode /\ info = FALSE /\ chunkCode = ""
    /\ replacements = EmptyMap /\ tempMap = EmptyMap /\ finalMap = EmptyMap
    /\ sortedOldQualifiers = <<>> /\ sortedPlaceholders = <<>> /\ ridx = 0
    /\ written = {}

\* the symbol extractor at rest
AccIdle == apc = "idle" /\ anode = NoNode /\ ainfo = FALSE /\ accessed = {} /\ aresult = <<>>

NoDecl == [idx |-> 0, skipped |-> FALSE, outcomes |-> <<>>]

\* the pipeline at rest, while the rewriter runs alone
PipeIdle ==
    /\ pc = "idle" /\ projectPath = "" /\ vendorStat = ""
    /\ mainPkgs = <<>> /\ mainErr = FALSE /\ vendorPkgs = <<>> /\ vendorErr = FALSE
    /\ allPkgs = <<>> /\ loadedPkgIDs = {} /\ loadResult = [pkgs |-> <<>>, err |-> ""]
    /\ absVendor = [path |-> "", err |-> FALSE]
    /\ allChunks = <<>> /\ pkgIdx = 0 /\ pkgChunks = <<>> /\ fileIdx = 0
    /\ fileBytes = "" /\ fileChunks = <<>> /\ declIdx = 0 /\ lastDecl = NoDecl
    /\ result = [chunks |-> <<>>, err |-> ""] /\ panicked = FALSE

\* the project paths the command line can pass
ProjectPaths == {"/p", "."}

Init ==
    /\ pc = "Stat"
    /\ projectPath \in ProjectPaths
    /\ vendorStat = ""
    /\ mainPkgs = <<>> /\ mainErr = FALSE /\ vendorPkgs = <<>> /\ vendorErr = FALSE
    /\ allPkgs = <<>> /\ loadedPkgIDs = {} /\ loadResult = [pkgs |-> <<>>, err |-> ""]
    /\ absVendor = [path |-> "", err |-> FALSE]
    /\ allChunks = <<>> /\ pkgIdx = 0 /\ pkgChunks = <<>> /\ fileIdx = 0
    /\ fileBytes = "" /\ fileChunks = <<>> /\ declIdx = 0 /\ lastDecl = NoDecl
    /\ result = [chunks |-> <<>>, err |-> ""] /\ panicked = FALSE
    /\ RwIdle
    /\ AccIdle

loadVars == <<mainPkgs, mainErr, vendorPkgs, vendorErr, allPkgs, loadedPkgIDs, loadResult>>
parseVars == <<absVendor, allChunks, pkgIdx, pkgChunks, fileIdx, fileBytes, fileChunks,
               declIdx, lastDecl, result, panicked>>

\* LoadGoProject: os.Stat(vendorDirPath), logged only
StatVendor ==
    /\ pc = "Stat"
    /\ vendorStat' \in {"absent", "error", "exists"}
    /\ pc' = "LoadMain"
    /\ UNCHANGED <<projectPath, loadVars, parseVars, rvars, avars>>

\* LoadGoProject step 1: packages.Load on the project root, then the merge
LoadMainModule ==
    /\ pc = "LoadMain"
    /\ mainPkgs' \in LoadResults(MainUnits)
    /\ mainErr' \in BOOLEAN
    /\ allPkgs' = MergeLoop(mainPkgs', 1, <<>>, {})[1]
    /\ loadedPkgIDs' = MergeLoop(mainPkgs', 1, <<>>, {})[2]
    /\ pc' = "LoadVendor"
    /\ UNCHANGED <<projectPath, vendorStat, vendorPkgs, vendorErr, loadResult, parseVars, rvars, avars>>

\* LoadGoProject step 2: packages.Load on the vendor directory, then the merge
LoadVendorDir ==
    /\ pc = "LoadVendor"
    /\ vendorPkgs' \in LoadResults(VendorUnits)
    /\ vendorErr' \in BOOLEAN
    /\ allPkgs' = MergeLoop(vendorPkgs', 1, allPkgs, loadedPkgIDs)[1]
    /\ loadedPkgIDs' = MergeLoop(vendorPkgs', 1, allPkgs, loadedPkgIDs)[2]
    /\ pc' = "LoadReturn"
    /\ UNCHANGED <<projectPath, vendorStat, mainPkgs, mainErr, loadResult, parseVars, rvars, avars>>

\* return allPkgs, nil; main stops on an error and calls ParsePackages otherwise
LoadReturn ==
    /\ pc = "LoadReturn"
    /\ loadResult' = [pkgs |-> allPkgs, err |-> LoadError(mainErr, vendorErr)]
    /\ pc' = IF loadResult'.err # "" THEN "Fatal" ELSE "ParseEntry"
    /\ UNCHANGED <<projectPath, vendorStat, mainPkgs, mainErr, vendorPkgs, vendorErr, allPkgs,
                   loadedPkgIDs, parseVars, rvars, avars>>

\* LoadGoProject has returned: of its locals only the list returned is left
LoadFrameGone ==
    /\ vendorStat' = "" /\ mainPkgs' = <<>> /\ mainErr' = FALSE
    /\ vendorPkgs' = <<>> /\ vendorErr' = FALSE /\ loadedPkgIDs' = {}
    /\ UNCHANGED <<allPkgs, loadResult>>

\* ParsePackages: filepath.Abs(vendorDirPath) fails, return nil, err
ParseAbsFails ==
    /\ pc = "ParseEntry"
    /\ \E wd \in Getwd :
          /\ Abs(JoinPath(projectPath, "vendor"), wd).err
          /\ absVendor' = Abs(JoinPath(projectPath, "vendor"), wd)
    /\ result' = [chunks |-> <<>>,
                  err |-> "failed to resolve absolute path for vendor directory"]
    /\ pc' = "Done"
    /\ LoadFrameGone
    /\ UNCHANGED <<projectPath, allChunks, pkgIdx, pkgChunks, fileIdx,
                   fileBytes, fileChunks, declIdx, lastDecl, panicked, rvars, avars>>

\* ParsePackages: filepath.Abs(vendorDirPath) succeeds, enter the loop over the units
ParseAbsOk ==
    /\ pc = "ParseEntry"
    /\ \E wd \in Getwd :
          /\ ~Abs(JoinPath(projectPath, "vendor"), wd).err
          /\ absVendor' = Abs(JoinPath(projectPath, "vendor"), wd)
    /\ pkgIdx' = 1
    /\ pc' = "PkgLoop"
    /\ LoadFrameGone
    /\ UNCHANGED <<projectPath, allChunks, pkgChunks, fileIdx,
                   fileBytes, fileChunks, declIdx, lastDecl, result, panicked, rvars, avars>>

\* a unit without type information, syntax or position index: log, continue
SkipPackage ==
    /\ pc = "PkgLoop"
    /\ pkgIdx <= Len(allPkgs)
    /\ Unusable(CurPkg)
    /\ pkgIdx' = pkgIdx + 1
    /\ UNCHANGED <<pc, projectPath, vendorStat, loadVars, absVendor, allChunks, pkgChunks,
                   fileIdx, fileBytes, fileChunks, declIdx, lastDecl, result, panicked, rvars, avars>>

\* processPackage(pkg, absVendorPath) is entered
EnterPackage ==
    /\ pc = "PkgLoop"
    /\ pkgIdx <= Len(allPkgs)
    /\ ~Unusable(CurPkg)
    /\ pkgChunks' = <<>>
    /\ fileIdx' = 1
    /\ pc' = "FileLoop"
    /\ UNCHANGED <<projectPath, vendorStat, loadVars, absVendor, allChunks, pkgIdx,
                   fileBytes, fileChunks, declIdx, lastDecl, result, panicked, rvars, avars>>

\* processPackage: ioutil.ReadFile(filePath) fails: log, continue
ReadFileFails ==
    /\ pc = "FileLoop"
    /\ fileIdx <= Len(CurPkg.Syntax)
    /\ \E read \in ReadFile(CurFile.Name) : read.err
    /\ pkgChunks' = OnReadError(pkgChunks)
    /\ fileIdx' = fileIdx + 1
    /\ UNCHANGED <<pc, projectPath, vendorStat, loadVars, absVendor, allChunks, pkgIdx,
                   fileBytes, fileChunks, declIdx, lastDecl, result, panicked, rvars, avars>>

\* processPackage: the file is read, processFileDeclarations is entered
ReadFileOk ==
    /\ pc = "FileLoop"
    /\ fileIdx <= Len(CurPkg.Syntax)
    /\ \E read \in ReadFile(CurFile.Name) :
          /\ ~read.err
          /\ fileBytes' = read.bytes
    /\ fileChunks' = <<>>
    /\ declIdx' = 1
    /\ lastDecl' = NoDecl
    /\ pc' = "DeclLoop"
    /\ UNCHANGED <<projectPath, vendorStat, loadVars, absVendor, allChunks, pkgIdx, pkgChunks,
                   fileIdx, result, panicked, rvars, avars>>

\* processFileDeclarations: invalid offsets: log, continue
SkipDeclaration ==
    /\ pc = "DeclLoop"
    /\ declIdx <= Len(CurFile.Decls)
    /\ InvalidOffsets(Position(CurFile, CurDecl.Pos).Offset, Position(CurFile, CurDecl.End).Offset,
                      Len(fileBytes))
    /\ lastDecl' = [idx |-> declIdx, skipped |-> TRUE, outcomes |-> <<>>]
    /\ declIdx' = declIdx + 1
    /\ UNCHANGED <<pc, projectPath, vendorStat, loadVars, absVendor, allChunks, pkgIdx, pkgChunks,
                   fileIdx, fileBytes, fileChunks, result, panicked, rvars, avars>>

\* processFileDeclarations: slice, ExtractAccessedSymbols, processDeclaration, append
ProcessDeclaration ==
    /\ pc = "DeclLoop"
    /\ declIdx <= Len(CurFile.Decls)
    /\ LET startPos == Position(CurFile, CurDecl.Pos)
           endPos == Position(CurFile, CurDecl.End)
           filePath == CurFile.Name
           isVendored == HasPrefix(filePath, absVendor.path \o "/")
           accessedSymbols == ExtractAccessedSymbols(Node(CurDecl.sels), CurPkg.TypesInfo)
           metadata == BaseMetadata(filePath, CurPkg.Name, isVendored, accessedSymbols)
           read == [err |-> FALSE, bytes |-> fileBytes]
       IN /\ ~InvalidOffsets(startPos.Offset, endPos.Offset, Len(fileBytes))
          /\ IF ~SliceInRange(fileBytes, startPos.Offset, endPos.Offset)
             THEN /\ panicked' = TRUE
                  /\ pc' = "Panic"
                  /\ UNCHANGED <<fileChunks, declIdx, lastDecl>>
             ELSE \E os \in processDeclaration(CurDecl, CurPkg,
                                GoSlice(fileBytes, startPos.Offset, endPos.Offset),
                                metadata, filePath, startPos, endPos, CurFile, read) :
                     IF \E k \in 1..Len(os) : os[k].panic
                     THEN /\ panicked' = TRUE
                          /\ pc' = "Panic"
                          /\ UNCHANGED <<fileChunks, declIdx, lastDecl>>
                     ELSE /\ lastDecl' = [idx |-> declIdx, skipped |-> FALSE, outcomes |-> os]
                          /\ fileChunks' = fileChunks \o OutcomeChunks(os)
                          /\ declIdx' = declIdx + 1
                          /\ UNCHANGED <<pc, panicked>>
    /\ UNCHANGED <<projectPath, vendorStat, loadVars, absVendor, allChunks, pkgIdx, pkgChunks,
                   fileIdx, fileBytes, result, rvars, avars>>

\* processFileDeclarations returns and its locals are gone; processPackage
\* appends fileChunks and ends the iteration that held the file's bytes
EndFile ==
    /\ pc = "DeclLoop"
    /\ declIdx > Len(CurFile.Decls)
    /\ pkgChunks' = pkgChunks \o fileChunks
    /\ fileChunks' = <<>>
    /\ declIdx' = 0
    /\ lastDecl' = NoDecl
    /\ fileBytes' = ""
    /\ fileIdx' = fileIdx + 1
    /\ pc' = "FileLoop"
    /\ UNCHANGED <<projectPath, vendorStat, loadVars, absVendor, allChunks, pkgIdx,
                   result, panicked, rvars, avars>>

\* processPackage returns chunks, nil and its locals are gone; ParsePackages
\* appends the chunks
EndPackage ==
    /\ pc = "FileLoop"
    /\ fileIdx > Len(CurPkg.Syntax)
    /\ allChunks' = allChunks \o pkgChunks
    /\ pkgChunks' = <<>>
    /\ fileIdx' = 0
    /\ pkgIdx' = pkgIdx + 1
    /\ pc' = "PkgLoop"
    /\ UNCHANGED <<projectPath, vendorStat, loadVars, absVendor,
                   fileBytes, fileChunks, declIdx, lastDecl, result, panicked, rvars, avars>>

\* return allChunks, nil
ParseReturn ==
    /\ pc = "PkgLoop"
    /\ pkgIdx > Len(allPkgs)
    /\ result' = [chunks |-> allChunks, err |-> ""]
    /\ pc' = "Done"
    /\ UNCHANGED <<projectPath, vendorStat, loadVars, absVendor, allChunks, pkgIdx, pkgChunks,
                   fileIdx, fileBytes, fileChunks, declIdx, lastDecl, panicked, rvars, avars>>

Next ==
    \/ StatVendor
    \/ LoadMainModule
    \/ LoadVendorDir
    \/ LoadReturn
    \/ ParseAbsFails
    \/ ParseAbsOk
    \/ SkipPackage
    \/ EnterPackage
    \/ ReadFileFails
    \/ ReadFileOk
    \/ SkipDeclaration
    \/ ProcessDeclaration
    \/ EndFile
    \/ EndPackage
    \/ ParseReturn

Spec == Init /\ [][Next]_vars

-----------------------------------------------------------------------------
(* ApplyQualifierReplacements, step by step, on enumerated arguments *)

\* the member selections the enumerated subtrees are built from
SelUniverse ==
    { SelExpr("ab", "Foo", PkgNameObj("pkg/ab")),
      SelExpr("a", "Bar", PkgNameObj("pkg/a")),
      SelExpr("b", "Baz", PkgNameObj("pkg/b")),
      SelExpr("fmt", "Println", PkgNameObj("fmt")),
      SelExpr("yamlv3", "Marshal", PkgNameObj("gopkg.in/yaml.v3")),
      SelExpr("yaml", "Load", PkgNameObj("my/yaml")),
      SelExpr("__", "Get", PkgNameObj("pkg/u")),
      SelExpr("a__", "Run", PkgNameObj("pkg/au")),
      SelExpr("abcde", "X", PkgNameObj("pkg/x")),
      SelExpr("_0__", "Y", PkgNameObj("_0__/y")),
      SelExpr("t", "x", VarObj("p")),
      SelExpr("u", "y", NoObj),
      SelOnExpr("Len") }

\* the node arguments: nil, or a subtree of at most MaxSels member selections
NodeInputs == {NoNode} \cup {Node(ss) : ss \in SeqsUpTo(SelUniverse, MaxSels)}

\* the chunkCode arguments
TextInputs ==
    { "ab.Foo(a.Bar)",
      "ab.Foo(b.Baz)",
      "fmt.Println(t.x)",
      "yamlv3.Marshal(yaml.Load)",
      "a__.Run(__.Get)",
      "abcde.X(_0__.Y)",
      "f().Len + u.y" }

InitRewrite ==
    /\ rpc = "entry"
    /\ text0 \in TextInputs
    /\ node \in NodeInputs
    /\ info \in BOOLEAN
    /\ chunkCode = text0
    /\ replacements = EmptyMap /\ tempMap = EmptyMap /\ finalMap = EmptyMap
    /\ sortedOldQualifiers = <<>> /\ sortedPlaceholders = <<>> /\ ridx = 0
    /\ written = {}
    /\ PipeIdle
    /\ AccIdle

\* if node == nil || info == nil { return chunkCode }
RwReturnNil ==
    /\ rpc = "entry"
    /\ node.isNil \/ ~info
    /\ rpc' = "done"
    /\ UNCHANGED <<text0, node, info, chunkCode, replacements, tempMap, finalMap,
                   sortedOldQualifiers, sortedPlaceholders, ridx, written, pvars, avars>>

\* ast.Inspect(node, ...) filling replacements
RwInspect ==
    /\ rpc = "entry"
    /\ ~node.isNil /\ info
    /\ replacements' = DiscoverReplacements(node)
    /\ rpc' = "inspected"
    /\ UNCHANGED <<text0, node, info, chunkCode, tempMap, finalMap,
                   sortedOldQualifiers, sortedPlaceholders, ridx, written, pvars, avars>>

\* if len(replacements) == 0 { return chunkCode }
RwReturnNoop ==
    /\ rpc = "inspected"
    /\ DOMAIN replacements = {}
    /\ rpc' = "done"
    /\ UNCHANGED <<text0, node, info, chunkCode, replacements, tempMap, finalMap,
                   sortedOldQualifiers, sortedPlaceholders, ridx, written, pvars, avars>>

\* the numbering loop over replacements, then the collection and sort of the aliases
RwNumber ==
    /\ rpc = "inspected"
    /\ DOMAIN replacements # {}
    /\ \E ord \in RangeOrders(DOMAIN replacements) :
          /\ tempMap' = TempMapOf(ord)
          /\ finalMap' = FinalMapOf(replacements, ord)
    /\ sortedOldQualifiers' \in SortedLongestFirst(DOMAIN tempMap')
    /\ ridx' = 1
    /\ rpc' = "phase1"
    /\ UNCHANGED <<text0, node, info, chunkCode, replacements, sortedPlaceholders, written, pvars, avars>>

\* one iteration of the loop over sortedOldQualifiers
RwPhase1Step ==
    /\ rpc = "phase1"
    /\ ridx <= Len(sortedOldQualifiers)
    /\ chunkCode' = ReplaceLoop(chunkCode, <<sortedOldQualifiers[ridx]>>, tempMap, 1)
    /\ ridx' = ridx + 1
    /\ UNCHANGED <<rpc, text0, node, info, replacements, tempMap, finalMap,
                   sortedOldQualifiers, sortedPlaceholders, written, pvars, avars>>

\* the collection and sort of the placeholders
RwSortPlaceholders ==
    /\ rpc = "phase1"
    /\ ridx > Len(sortedOldQualifiers)
    /\ sortedPlaceholders' \in SortedLongestFirst(DOMAIN finalMap)
    /\ ridx' = 1
    /\ rpc' = "phase2"
    /\ UNCHANGED <<text0, node, info, chunkCode, replacements, tempMap, finalMap,
                   sortedOldQualifiers, written, pvars, avars>>

\* one iteration of the loop over sortedPlaceholders
RwPhase2Step ==
    /\ rpc = "phase2"
    /\ ridx <= Len(sortedPlaceholders)
    /\ chunkCode' = ReplaceLoop(chunkCode, <<sortedPlaceholders[ridx]>>, finalMap, 1)
    /\ written' = IF Contains(chunkCode, sortedPlaceholders[ridx] \o ".")
                  THEN written \cup {finalMap[sortedPlaceholders[ridx]]}
                  ELSE written
    /\ ridx' = ridx + 1
    /\ UNCHANGED <<rpc, text0, node, info, replacements, tempMap, finalMap,
                   sortedOldQualifiers, sortedPlaceholders, pvars, avars>>

\* return chunkCode
RwReturn ==
    /\ rpc = "phase2"
    /\ ridx > Len(sortedPlaceholders)
    /\ rpc' = "done"
    /\ UNCHANGED <<text0, node, info, chunkCode, replacements, tempMap, finalMap,
                   sortedOldQualifiers, sortedPlaceholders, ridx, written, pvars, avars>>

NextRewrite ==
    \/ RwReturnNil
    \/ RwInspect
    \/ RwReturnNoop
    \/ RwNumber
    \/ RwPhase1Step
    \/ RwSortPlaceholders
    \/ RwPhase2Step
    \/ RwReturn

SpecRewrite == InitRewrite /\ [][NextRewrite]_vars

-----------------------------------------------------------------------------
(* pkg/analyzer: ExtractAccessedSymbols alone, step by step (SpecAccessed) *)

InitAccessed ==
    /\ apc = "entry"
    /\ anode \in NodeInputs
    /\ ainfo \in BOOLEAN
    /\ accessed = {}
    /\ aresult = <<>>
    /\ PipeIdle
    /\ RwIdle

\* if node == nil || info == nil { return nil }
AccReturnNil ==
    /\ apc = "entry"
    /\ anode.isNil \/ ~ainfo
    /\ apc' = "done"
    /\ UNCHANGED <<anode, ainfo, accessed, aresult, rvars, pvars>>

\* ast.Inspect fills the map accessed
AccInspect ==
    /\ apc = "entry"
    /\ ~anode.isNil /\ ainfo
    /\ accessed' = AccessedSet(anode.sels)
    /\ apc' = "collect"
    /\ UNCHANGED <<anode, ainfo, aresult, rvars, pvars>>

\* for symbol := range accessed { result = append(result, symbol) }
AccCollect ==
    /\ apc = "collect"
    /\ aresult' \in RangeOrders(accessed)
    /\ apc' = "sort"
    /\ UNCHANGED <<anode, ainfo, accessed, rvars, pvars>>

\* sort.Strings(result); return result
AccSortReturn ==
    /\ apc = "sort"
    /\ aresult' = SortStrings({aresult[x] : x \in 1..Len(aresult)})
    /\ apc' = "done"
    /\ UNCHANGED <<anode, ainfo, accessed, rvars, pvars>>

NextAccessed ==
    \/ AccReturnNil
    \/ AccInspect
    \/ AccCollect
    \/ AccSortReturn

SpecAccessed == InitAccessed /\ [][NextAccessed]_vars

-----------------------------------------------------------------------------
(* Properties of the pipeline (Spec) *)

\* s is a prefix of t
IsPrefix(s, t) == Len(s) <= Len(t) /\ SubSeq(t, 1, Len(s)) = s

\* the elements of s at the positions in keep, in order
RECURSIVE SubseqAt(_, _, _)
SubseqAt(s, keep, k) ==
    IF k > Len(s) THEN <<>>
    ELSE IF k \in keep THEN <<s[k]>> \o SubseqAt(s, keep, k + 1)
    ELSE SubseqAt(s, keep, k + 1)

\* the units of s whose identity no earlier unit of s has
FirstOccurrences(s) ==
    SubseqAt(s, {x \in 1..Len(s) : \A y \in 1..(x - 1) : s[y].ID # s[x].ID}, 1)

\* both Load calls have returned and their lists are merged
Merged == pc \in {"LoadReturn", "ParseEntry"}

\* every chunk collected so far, in output order
Collected == allChunks \o pkgChunks \o fileChunks

\* the declaration the last iteration of processFileDeclarations was about
LastDecl == CurFile.Decls[lastDecl.idx]

\* the last iteration went through processDeclaration
Processed == pc = "DeclLoop" /\ lastDecl.idx > 0 /\ ~lastDecl.skipped

\* C1: the merged list holds no identity twice, holds one unit for every
\* identity either pass yielded, is the list of first occurrences in the
\* order pass A then pass B, and takes pass A's instance on a collision.
C1_MergeDedup ==
    Merged =>
        /\ \A x, y \in 1..Len(allPkgs) : x # y => allPkgs[x].ID # allPkgs[y].ID
        /\ \A u \in {mainPkgs[x] : x \in 1..Len(mainPkgs)} \cup {vendorPkgs[x] : x \in 1..Len(vendorPkgs)} :
              Cardinality({x \in 1..Len(allPkgs) : allPkgs[x].ID = u.ID}) = 1
        /\ allPkgs = FirstOccurrences(mainPkgs \o vendorPkgs)
        /\ \A x \in 1..Len(allPkgs) :
              (\E y \in 1..Len(mainPkgs) : mainPkgs[y].ID = allPkgs[x].ID) => allPkgs[x].pass = "A"
        /\ pc = "ParseEntry" => loadResult.pkgs = allPkgs

\* C1 witness: both passes yielded unit q and the merged list holds pass A's
C1_Witness ==
    /\ Merged
    /\ \E y \in 1..Len(mainPkgs) : mainPkgs[y].ID = "q"
    /\ \E y \in 1..Len(vendorPkgs) : vendorPkgs[y].ID = "q"
    /\ \E y \in 1..Len(vendorPkgs) : vendorPkgs[y].ID = "r"
    /\ Cardinality({x \in 1..Len(allPkgs) : allPkgs[x].ID = "q"}) = 1
    /\ \A x \in 1..Len(allPkgs) : allPkgs[x].ID = "q" => allPkgs[x].pass = "A"

\* C2: the identifier of every chunk is <file_path>:<start_line>-<end_line>-
\* <entity_name>, entity_name being the value of that metadata key and the
\* lines those of the chunk's own span.
C2_IdFromEntityName ==
    Processed =>
        \A k \in 1..Len(lastDecl.outcomes) :
            \A c \in {lastDecl.outcomes[k].chunks[x] : x \in 1..Len(lastDecl.outcomes[k].chunks)} :
                c.ID = SprintfID(c.Metadata["file_path"],
                                 Position(CurFile, lastDecl.outcomes[k].Start).Line,
                                 Position(CurFile, lastDecl.outcomes[k].End).Line,
                                 c.Metadata["entity_name"])

\* C3: the metadata of every chunk holds the five core keys.
C3_CoreKeys ==
    \A x \in 1..Len(Collected) :
        {"file_path", "package_name", "is_vendored", "entity_type", "entity_name"}
            \subseteq DOMAIN Collected[x].Metadata

\* C7: the pipeline returns an error exactly when filepath.Abs failed;
\* LoadGoProject never does, whatever the Load calls and os.Stat reported,
\* and without an error the chunks collected are what is returned.
C7_OnlyAbsIsFatal ==
    /\ pc # "Fatal"
    /\ loadResult.err = ""
    /\ pc = "Done" => /\ (result.err # "") <=> absVendor.err
                      /\ result.err = "" => result.chunks = allChunks

\* C7 witness: both Load calls reported an error and the vendor directory is
\* absent, and LoadGoProject returned no error and a list with a unit to skip
\* and a unit to chunk, on which ParsePackages is entered
C7_Witness ==
    /\ pc = "ParseEntry"
    /\ mainErr /\ vendorErr /\ vendorStat = "absent"
    /\ loadResult.err = ""
    /\ \E x \in 1..Len(loadResult.pkgs) : Unusable(loadResult.pkgs[x])
    /\ \E x \in 1..Len(loadResult.pkgs) : ~Unusable(loadResult.pkgs[x])

\* C8: the chunks collected so far only ever grow at the end, and what is
\* returned without an error is what was collected.
C8_AppendOnly ==
    [][ /\ IsPrefix(Collected, Collected')
        /\ (pc' = "Done" /\ result'.err = "") => result'.chunks = Collected' ]_vars

\* C8 witness: the second file of unit p failed to read after the first gave
\* chunks, which are returned
C8_Witness ==
    /\ pc = "Done"
    /\ result.err = ""
    /\ \E x \in 1..Len(result.chunks) : result.chunks[x].Metadata["entity_name"] = "F"
    /\ \A x \in 1..Len(result.chunks) : result.chunks[x].Metadata["entity_name"] # "H"

\* C9: the text of every chunk before the rewrite is bytes[start:end] of the
\* file read it was checked against, with 0 <= start <= end <= len(bytes) and
\* start_line <= end_line; a span out of these bounds gives no chunk, no slice
\* expression panics, and after a skipped declaration the loop is at the next.
C9_SliceWithinBounds ==
    /\ ~panicked
    /\ pc = "DeclLoop" /\ lastDecl.idx > 0 =>
        /\ declIdx = lastDecl.idx + 1
        /\ lastDecl.skipped =>
              ~SliceInRange(fileBytes, LastDecl.Pos, LastDecl.End)
        /\ \A k \in 1..Len(lastDecl.outcomes) :
              LET o == lastDecl.outcomes[k] IN
              /\ Len(o.chunks) > 0 =>
                    /\ ~o.read.err
                    /\ SliceInRange(o.read.bytes, o.Start, o.End)
                    /\ o.code = SubSeq(o.read.bytes, o.Start + 1, o.End)
                    /\ Len(o.code) = o.End - o.Start
                    /\ Position(CurFile, o.Start).Line <= Position(CurFile, o.End).Line
              /\ ~SliceInRange(o.read.bytes, o.Start, o.End) => Len(o.chunks) = 0

\* C9 witness: in the type group of /p/a.go the binding T was sliced from a
\* file that had shrunk to end right after it, and the binding I, now out of
\* bounds, gave no chunk
C9_Witness ==
    /\ Processed
    /\ LastDecl.Tok = "type"
    /\ Len(lastDecl.outcomes) = 2
    /\ Len(lastDecl.outcomes[1].chunks) = 1
    /\ lastDecl.outcomes[1].code = "T struct{}"
    /\ Len(lastDecl.outcomes[1].read.bytes) = lastDecl.outcomes[1].End
    /\ ~lastDecl.outcomes[2].read.err
    /\ lastDecl.outcomes[2].End > Len(lastDecl.outcomes[2].read.bytes)
    /\ Len(lastDecl.outcomes[2].chunks) = 0

\* C10: a function or method declaration gives one chunk, an import
\* declaration none, and a type, constant or variable group one outcome per
\* binding: one chunk when the binding's file read succeeded and its span is
\* within the bytes read, none otherwise.
C10_ChunksPerDeclaration ==
    Processed =>
        /\ LastDecl.kind = "FuncDecl" =>
              Len(OutcomeChunks(lastDecl.outcomes)) = 1
        /\ LastDecl.kind = "GenDecl" /\ LastDecl.Tok = "import" =>
              Len(OutcomeChunks(lastDecl.outcomes)) = 0
        /\ LastDecl.kind = "GenDecl" /\ LastDecl.Tok # "import" =>
              /\ Len(lastDecl.outcomes) = Len(LastDecl.Specs)
              /\ \A k \in 1..Len(lastDecl.outcomes) :
                    LET o == lastDecl.outcomes[k] IN
                    /\ o.Start = LastDecl.Specs[k].Pos /\ o.End = LastDecl.Specs[k].End
                    /\ Len(o.chunks) =
                          IF ~o.read.err /\ SliceInRange(o.read.bytes, o.Start, o.End)
                          THEN 1 ELSE 0

\* C10 witness: the type group of /p/a.go, whose first binding could not be
\* read and whose second binding gave its chunk
C10_Witness ==
    /\ Processed
    /\ LastDecl.Tok = "type"
    /\ Len(lastDecl.outcomes) = 2
    /\ lastDecl.outcomes[1].read.err
    /\ Len(lastDecl.outcomes[1].chunks) = 0
    /\ Len(lastDecl.outcomes[2].chunks) = 1

\* C11: the chunk of a function declaration has entity_type "method" exactly
\* when the receiver list is not empty and "function" otherwise; a method has
\* receiver_type, the type text of the first receiver's type, and entity_name
\* <receiver_type>.<name>; a plain function has no receiver_type and its own
\* name as entity_name.
C11_FunctionOrMethod ==
    (Processed /\ LastDecl.kind = "FuncDecl") =>
        /\ Len(lastDecl.outcomes) = 1 /\ Len(lastDecl.outcomes[1].chunks) = 1
        /\ LET md == lastDecl.outcomes[1].chunks[1].Metadata IN
           /\ md["entity_type"] = (IF Len(LastDecl.Recv) > 0 THEN "method" ELSE "function")
           /\ Len(LastDecl.Recv) > 0 =>
                 /\ "receiver_type" \in DOMAIN md
                 /\ md["receiver_type"] = GetTypeString(LastDecl.Recv[1])
                 /\ md["entity_name"] = md["receiver_type"] \o "." \o LastDecl.Name
           /\ Len(LastDecl.Recv) = 0 =>
                 /\ "receiver_type" \notin DOMAIN md
                 /\ md["entity_name"] = LastDecl.Name

\* C11 witness: the method M of /p/a.go, receiver *T, was processed
C11_Witness ==
    /\ Processed
    /\ LastDecl.kind = "FuncDecl" /\ LastDecl.Name = "M"
    /\ Len(lastDecl.outcomes) = 1 /\ Len(lastDecl.outcomes[1].chunks) = 1
    /\ lastDecl.outcomes[1].chunks[1].Metadata["entity_type"] = "method"
    /\ lastDecl.outcomes[1].chunks[1].Metadata["receiver_type"] = "*p.T"
    /\ lastDecl.outcomes[1].chunks[1].Metadata["entity_name"] = "*p.T.M"

\* the keys processFileDeclarations writes for the whole declaration
GroupKeys == {"file_path", "package_name", "is_vendored", "accessed_symbols"}

\* C12: in a declaration group every chunk's metadata holds the binding's own
\* entity_name, holds type and type_category only when the binding itself
\* gives them and then with its own value, and holds the group-level keys with
\* the values of the whole declaration, the same in every sibling.
C12_OwnMetadataPerBinding ==
    (Processed /\ LastDecl.kind = "GenDecl") =>
        \A k \in 1..Len(lastDecl.outcomes) :
            \A c \in {lastDecl.outcomes[k].chunks[x] : x \in 1..Len(lastDecl.outcomes[k].chunks)} :
                LET spec == LastDecl.Specs[k]
                    md == c.Metadata
                IN /\ md["entity_name"] = Join(spec.Names, ", ")
                   /\ "type" \in DOMAIN md =>
                         /\ spec.kind = "ValueSpec"
                         /\ spec.Type # NoExpr \/ Len(spec.Values) > 0
                         /\ md["type"] = (IF spec.Type # NoExpr THEN GetTypeString(spec.Type)
                                          ELSE spec.Values[1].tv)
                   /\ "type_category" \in DOMAIN md =>
                         /\ spec.kind = "TypeSpec"
                         /\ md["type_category"] =
                               (IF spec.Shape = "StructType" THEN "struct"
                                ELSE IF spec.Shape = "InterfaceType" THEN "interface"
                                ELSE "alias_or_basic")
                   /\ GroupKeys \subseteq DOMAIN md
                   /\ md["file_path"] = CurFile.Name
                   /\ md["package_name"] = CurPkg.Name
                   /\ md["is_vendored"] = HasPrefix(CurFile.Name, absVendor.path \o "/")
                   /\ md["accessed_symbols"] = ExtractAccessedSymbols(Node(LastDecl.sels), TRUE)
                   /\ \A j \in 1..Len(lastDecl.outcomes) :
                         \A d \in {lastDecl.outcomes[j].chunks[x] :
                                      x \in 1..Len(lastDecl.outcomes[j].chunks)} :
                             \A key \in GroupKeys : d.Metadata[key] = md[key]

\* C12 witness: the constant group of q.go gave three chunks: A with type
\* int, B with no type key, C with type untyped int
C12_Witness ==
    /\ Processed
    /\ LastDecl.Tok = "const"
    /\ Len(lastDecl.outcomes) = 3
    /\ \A k \in 1..3 : Len(lastDecl.outcomes[k].chunks) = 1
    /\ lastDecl.outcomes[1].chunks[1].Metadata["entity_name"] = "A"
    /\ lastDecl.outcomes[1].chunks[1].Metadata["type"] = "int"
    /\ lastDecl.outcomes[2].chunks[1].Metadata["entity_name"] = "B"
    /\ "type" \notin DOMAIN lastDecl.outcomes[2].chunks[1].Metadata
    /\ lastDecl.outcomes[3].chunks[1].Metadata["type"] = "untyped int"
    /\ lastDecl.outcomes[3].chunks[1].Metadata["is_vendored"] = TRUE

\* the chunks of value bindings the last declaration gave, with their bindings
ValueChunks ==
    { <<LastDecl.Specs[k], lastDecl.outcomes[k].chunks[1].Metadata>> :
        k \in {x \in 1..Len(lastDecl.outcomes) :
                  Len(lastDecl.outcomes[x].chunks) = 1 /\ LastDecl.Specs[x].kind = "ValueSpec"} }

\* C13: the type key of a constant or variable chunk is the type text of the
\* annotation when there is one; else the resolved type of the first
\* initializer when there is an initializer; else it is absent.
C13_TypeKeyAsStated ==
    (Processed /\ LastDecl.kind = "GenDecl") =>
        \A sm \in ValueChunks :
            IF sm[1].Type # NoExpr
            THEN "type" \in DOMAIN sm[2] /\ sm[2]["type"] = GetTypeString(sm[1].Type)
            ELSE IF Len(sm[1].Values) > 0
            THEN "type" \in DOMAIN sm[2] /\ sm[2]["type"] = sm[1].Values[1].tv
            ELSE "type" \notin DOMAIN sm[2]

\* C13 (amended): the same, the second case being that of a first initializer
\* whose type is resolved; with no annotation and a first initializer without
\* a resolved type the key is absent, as with no initializer at all.
C13_TypeKeyRule ==
    (Processed /\ LastDecl.kind = "GenDecl") =>
        \A sm \in ValueChunks :
            IF sm[1].Type # NoExpr
            THEN "type" \in DOMAIN sm[2] /\ sm[2]["type"] = GetTypeString(sm[1].Type)
            ELSE IF Len(sm[1].Values) > 0 /\ sm[1].Values[1].tv # ""
            THEN "type" \in DOMAIN sm[2] /\ sm[2]["type"] = sm[1].Values[1].tv
            ELSE "type" \notin DOMAIN sm[2]

\* C13 witness: `var z, w = g(), 1` of /p/b.go gave its chunk: no annotation,
\* a first initializer without a resolved type, and no type key
C13_Witness ==
    /\ Processed
    /\ LastDecl.Tok = "var"
    /\ \E sm \in ValueChunks :
          /\ sm[1].Type = NoExpr
          /\ Len(sm[1].Values) = 2 /\ sm[1].Values[1].tv = "" /\ sm[1].Values[2].tv = "int"
          /\ "type" \notin DOMAIN sm[2]

\* names[k..] in the order given, with ", " between two names
RECURSIVE CommaList(_, _)
CommaList(names, k) ==
    IF k > Len(names) THEN ""
    ELSE IF k = Len(names) THEN names[k]
    ELSE names[k] \o ", " \o CommaList(names, k + 1)

\* C14: a value binding gives at most one chunk, however many names it binds,
\* and the chunk's entity_name is the names in declaration order joined with
\* ", ".
C14_OneChunkJoinedNames ==
    (Processed /\ LastDecl.kind = "GenDecl" /\ LastDecl.Tok # "import") =>
        /\ Len(lastDecl.outcomes) = Len(LastDecl.Specs)
        /\ \A k \in 1..Len(lastDecl.outcomes) :
              LastDecl.Specs[k].kind = "ValueSpec" =>
                  /\ Len(lastDecl.outcomes[k].chunks) <= 1
                  /\ \A x \in 1..Len(lastDecl.outcomes[k].chunks) :
                        lastDecl.outcomes[k].chunks[x].Metadata["entity_name"]
                            = CommaList(LastDecl.Specs[k].Names, 1)

\* C14 witness: `var z, w = g(), 1` gave one chunk named "z, w", in
\* declaration order and not in ascending order
C14_Witness ==
    /\ Processed
    /\ LastDecl.Tok = "var"
    /\ Len(LastDecl.Specs) = 1 /\ LastDecl.Specs[1].Names = <<"z", "w">>
    /\ Len(OutcomeChunks(lastDecl.outcomes)) = 1
    /\ lastDecl.outcomes[1].chunks[1].Metadata["entity_name"] = "z, w"
    /\ lastDecl.outcomes[1].chunks[1].ID = "/p/b.go:3-3-z, w"

\* the unit lacks a type-resolution table, syntax, or a position index
Lacking(u) == u.TypesInfo = FALSE \/ u.nilSyntax \/ u.Fset = FALSE

\* C16: the loop of ParsePackages passes a unit that lacks type information,
\* syntax or position index in one step that adds no chunk and fails nothing,
\* enters every other unit and appends that unit's chunks, and returns only
\* after the last unit of the list.
C16_SkipUnusable ==
    [][ /\ (pc = "PkgLoop" /\ pkgIdx <= Len(allPkgs) /\ Lacking(allPkgs[pkgIdx])) =>
              /\ pc' = "PkgLoop" /\ pkgIdx' = pkgIdx + 1
              /\ allChunks' = allChunks
              /\ ~panicked' /\ result' = result
        /\ (pc = "PkgLoop" /\ pkgIdx <= Len(allPkgs) /\ ~Lacking(allPkgs[pkgIdx])) =>
              /\ pc' = "FileLoop" /\ pkgIdx' = pkgIdx
        /\ (pc = "FileLoop" /\ pc' = "PkgLoop") =>
              /\ ~Lacking(allPkgs[pkgIdx])
              /\ allChunks' = allChunks \o pkgChunks /\ pkgIdx' = pkgIdx + 1
        /\ (pc = "PkgLoop" /\ pc' = "Done") =>
              /\ pkgIdx > Len(allPkgs)
              /\ result'.err = "" /\ result'.chunks = allChunks ]_vars

\* C16 witness: a unit without type information, unit p, and then a unit
\* without position index and unit q: the chunks of p and q are returned
C16_Witness ==
    /\ pc = "Done"
    /\ result.err = ""
    /\ Len(allPkgs) = 4
    /\ allPkgs[1].TypesInfo = FALSE
    /\ allPkgs[2].ID = "p"
    /\ \E x \in 3..4 : allPkgs[x].Fset = FALSE
    /\ \E x \in 3..4 : allPkgs[x].ID = "q"
    /\ \E x \in 1..Len(result.chunks) : result.chunks[x].Metadata["package_name"] = "p"
    /\ \E x \in 1..Len(result.chunks) : result.chunks[x].Metadata["package_name"] = "q"
    /\ \A x \in 1..Len(result.chunks) : result.chunks[x].Metadata["package_name"] \in {"p", "q"}

\* the chunks of type bindings the last declaration gave, with their bindings
TypeChunks ==
    { <<LastDecl.Specs[k], lastDecl.outcomes[k].chunks[1].Metadata>> :
        k \in {x \in 1..Len(lastDecl.outcomes) :
                  Len(lastDecl.outcomes[x].chunks) = 1 /\ LastDecl.Specs[x].kind = "TypeSpec"} }

\* C17: the chunk of a type binding has the declared name as entity_name and
\* a type_category, which is struct for a type written as a struct type,
\* interface for one written as an interface type, and alias_or_basic for any
\* other.
C17_TypeCategory ==
    (Processed /\ LastDecl.kind = "GenDecl") =>
        \A sm \in TypeChunks :
            /\ sm[2]["entity_name"] = sm[1].Names[1]
            /\ "type_category" \in DOMAIN sm[2]
            /\ sm[2]["type_category"] \in {"struct", "interface", "alias_or_basic"}
            /\ sm[2]["type_category"] = "struct" <=> sm[1].Shape = "StructType"
            /\ sm[2]["type_category"] = "interface" <=> sm[1].Shape = "InterfaceType"

\* C17 witness: `type N T` of /p/b.go gave its chunk, named N, alias_or_basic
C17_Witness ==
    /\ Processed
    /\ LastDecl.Tok = "type"
    /\ \E sm \in TypeChunks :
          /\ sm[1].Shape = "Ident"
          /\ sm[2]["entity_name"] = "N"
          /\ sm[2]["type_category"] = "alias_or_basic"

\* the type group of /p/a.go gave T as struct and I as interface
StructAndInterface ==
    /\ Processed
    /\ LastDecl.Tok = "type"
    /\ Cardinality(TypeChunks) = 2
    /\ \E sm \in TypeChunks : sm[2]["entity_name"] = "T" /\ sm[2]["type_category"] = "struct"
    /\ \E sm \in TypeChunks : sm[2]["entity_name"] = "I" /\ sm[2]["type_category"] = "interface"

\* C18: the bytes a type or value binding is checked against and sliced from
\* are the bytes processPackage read for the file: no binding meets a later
\* read of the file.
C18_ReadOncePerFile ==
    (Processed /\ LastDecl.kind = "GenDecl" /\ LastDecl.Tok # "import") =>
        \A k \in 1..Len(lastDecl.outcomes) :
            /\ ~lastDecl.outcomes[k].read.err
            /\ lastDecl.outcomes[k].read.bytes = fileBytes

\* a binding's chunk sliced from a read of the file that differs from the
\* read of processPackage
SlicedFromSecondRead ==
    /\ Processed
    /\ \E k \in 1..Len(lastDecl.outcomes) :
          /\ Len(lastDecl.outcomes[k].chunks) = 1
          /\ LastDecl.kind = "GenDecl"
          /\ lastDecl.outcomes[k].read.bytes # fileBytes

-----------------------------------------------------------------------------
(* Properties of the qualifier rewriter (SpecRewrite) *)

\* the rewrite the aliases call for: at every "." of the text, the longest
\* alias that ends right before it is replaced by its own full path
RECURSIVE LongestAliasScan(_, _, _, _)
LongestAliasScan(rest, seg, out, repl) ==
    IF Len(rest) = 0 THEN out
    ELSE LET c == SubSeq(rest, 1, 1) IN
         IF c = "."
         THEN LET cands == {q \in DOMAIN repl : HasSuffix(seg, q)} IN
              IF cands = {}
              THEN LongestAliasScan(Tail(rest), "", out \o ".", repl)
              ELSE LET q == CHOOSE x \in cands : \A y \in cands : Len(y) <= Len(x) IN
                   LongestAliasScan(Tail(rest), "",
                       SubSeq(out, 1, Len(out) - Len(q)) \o repl[q] \o ".", repl)
         ELSE LongestAliasScan(Tail(rest), seg \o c, out \o c, repl)

LongestAliasRewrite(text, repl) == LongestAliasScan(text, "", "", repl)

\* one discovered alias is a proper prefix or suffix of another
SubstringAliases ==
    \E q, r \in DOMAIN replacements : q # r /\ (HasPrefix(r, q) \/ HasSuffix(r, q))

\* no discovered alias is the tail of a placeholder token
NoAliasEndsPlaceholder ==
    \A q \in DOMAIN replacements : \A p \in DOMAIN finalMap : ~HasSuffix(p, q)

\* neither the text passed in nor a full import path holds placeholder text
NoPlaceholderInInput ==
    /\ ~Contains(text0, placeholderPrefix)
    /\ \A q \in DOMAIN replacements : ~Contains(replacements[q], placeholderPrefix)

\* the subtree and type information yield no replacement pair: one of them is
\* missing, or no member selection has a base identifier bound to an imported
\* package under an alias other than its full import path
NothingToReplace ==
    \/ node.isNil
    \/ ~info
    \/ \A i \in 1..Len(node.sels) :
          ~(node.sels[i].isIdent /\ node.sels[i].obj.kind = "PkgName"
              /\ node.sels[i].X # node.sels[i].obj.path)

\* C4: whenever one discovered alias is a prefix or suffix of another, the
\* returned text is the text with every `<alias>.` replaced by the full path
\* of the longest alias ending there, whatever the iteration order.
C4_AnyAliases ==
    (rpc = "done" /\ SubstringAliases /\ NoPlaceholderInInput)
        => chunkCode = LongestAliasRewrite(text0, replacements)

\* where the rewrite of C4 does hold: in every run in which no alias is the
\* tail of a placeholder token `__GO_QUALIFIER_TEMP_<i>__`
CollisionSafeUnlessAliasEndsPlaceholder ==
    (rpc = "done" /\ SubstringAliases /\ NoPlaceholderInInput /\ NoAliasEndsPlaceholder)
        => chunkCode = LongestAliasRewrite(text0, replacements)

\* aliases b and ab (b is a suffix of ab) rewritten in `ab.Foo(b.Baz)`
SuffixAliasesRewritten ==
    /\ rpc = "done"
    /\ text0 = "ab.Foo(b.Baz)"
    /\ DOMAIN replacements = {"ab", "b"}
    /\ chunkCode = "pkg/ab.Foo(pkg/b.Baz)"

\* aliases a and ab (a is a prefix of ab) rewritten in `ab.Foo(a.Bar)`
PrefixAliasesRewritten ==
    /\ rpc = "done"
    /\ text0 = "ab.Foo(a.Bar)"
    /\ DOMAIN replacements = {"a", "ab"}
    /\ chunkCode = "pkg/ab.Foo(pkg/a.Bar)"

\* the text passed in holds no placeholder text
NoPlaceholderInText == ~Contains(text0, placeholderPrefix)

\* C5: a full import path the second loop wrote stays in the text verbatim
\* through the rest of the loop, and the returned text holds no placeholder
\* token, whole or in part, given that the text passed in held none.
C5_WrittenPathsStay ==
    (rpc \in {"phase2", "done"} /\ NoPlaceholderInText)
        => /\ \A path \in written : Contains(chunkCode, path \o ".")
           /\ rpc = "done" => ~Contains(chunkCode, placeholderPrefix)

\* aliases abcde and _0__ in `abcde.X(_0__.Y)`, abcde numbered 0: the alias
\* _0__ is the end of the token of abcde, and the token is returned whole
WholePlaceholderReturned ==
    /\ rpc = "done"
    /\ text0 = "abcde.X(_0__.Y)"
    /\ DOMAIN replacements = {"abcde", "_0__"}
    /\ tempMap["abcde"] = "__GO_QUALIFIER_TEMP_0__"
    /\ chunkCode = "__GO_QUALIFIER_TEMP_0__/y.X(_0__/y.Y)"

\* where C5 does hold: in every run in which no alias is the tail of a
\* placeholder token, the written paths stay and no placeholder text is left
WrittenPathsStayUnlessAliasEndsPlaceholder ==
    (rpc \in {"phase2", "done"} /\ NoPlaceholderInInput /\ NoAliasEndsPlaceholder)
        => /\ \A path \in written : Contains(chunkCode, path \o ".")
           /\ rpc = "done" => ~Contains(chunkCode, placeholderPrefix)

\* the path gopkg.in/yaml.v3 holds `yaml.`, yaml being another alias, and is
\* returned verbatim
PathHoldingAliasReturned ==
    /\ rpc = "done"
    /\ text0 = "yamlv3.Marshal(yaml.Load)"
    /\ DOMAIN replacements = {"yamlv3", "yaml"}
    /\ written = {"gopkg.in/yaml.v3", "my/yaml"}
    /\ chunkCode = "gopkg.in/yaml.v3.Marshal(my/yaml.Load)"

\* C6: with no replacement pair to discover, the text is returned unchanged.
C6_NoopUnchanged ==
    (rpc = "done" /\ NothingToReplace) => chunkCode = text0

\* C6 witness: a subtree whose only package qualifier is fmt, its own full
\* path, next to a selection on a variable; the text names both
C6_Witness ==
    /\ rpc = "done"
    /\ ~node.isNil /\ info
    /\ Len(node.sels) = 2
    /\ node.sels[1].X = "fmt" /\ node.sels[2].X = "t"
    /\ text0 = "fmt.Println(t.x)"
    /\ chunkCode = text0

-----------------------------------------------------------------------------
(* Properties of the symbol extractor (SpecAccessed) *)

\* the member selections of the subtree whose base is a plain identifier that
\* the use table binds to an imported package name
PackageSelections ==
    IF anode.isNil \/ ~ainfo THEN {}
    ELSE { anode.sels[x] :
             x \in {y \in 1..Len(anode.sels) :
                      anode.sels[y].isIdent /\ anode.sels[y].obj.kind = "PkgName"} }

\* C15: what ExtractAccessedSymbols returns holds <import-path>.<member> for
\* exactly the member selections on an imported package name, each once, in
\* ascending byte order; it is empty for a nil node, nil type information, and
\* a subtree none of whose selections is on a package name.
C15_AccessedSymbols ==
    apc = "done" =>
        /\ {aresult[x] : x \in 1..Len(aresult)}
              = {sel.obj.path \o "." \o sel.Sel : sel \in PackageSelections}
        /\ \A x, y \in 1..Len(aresult) : x < y => StrLess(aresult[x], aresult[y])
        /\ aresult = ExtractAccessedSymbols(anode, ainfo)

\* C15 witness: b.Baz comes before ab.Foo in the subtree and pkg/ab.Foo comes
\* first in the result
C15_Witness ==
    /\ apc = "done"
    /\ ainfo
    /\ Len(anode.sels) = 2
    /\ anode.sels[1].X = "b" /\ anode.sels[2].X = "ab"
    /\ aresult = <<"pkg/ab.Foo", "pkg/b.Baz">>

\* the same selection twice in the subtree gives one entry
DuplicateSelectionOnce ==
    /\ apc = "done"
    /\ ainfo
    /\ Len(anode.sels) = 2
    /\ anode.sels[1].X = "fmt" /\ anode.sels[2].X = "fmt"
    /\ aresult = <<"fmt.Println">>

====
